---- MODULE Spec2Model ----
(***************************************************************************)
(* Model of the cortex indexing-decision pipeline (crates/core):           *)
(*   Debouncer, ExtensionFilter, IgnoreMatcher, IndexDecider and the       *)
(*   FileIndexer watcher, and of the parser layer: LanguageParserRegistry   *)
(*   and PythonParser's tree traversal.  Paths and pattern lines are       *)
(*   sequences of one-character strings, time is a natural number of       *)
(*   clock units, a syntax tree is a record with its children in order.    *)
(***************************************************************************)
EXTENDS Integers, Sequences, FiniteSets, TLC

\* ------------------------------------------------------------------ bounds
MaxTime == 4
MaxWindow == 2
MaxSkew == 1
MaxEvents == 2
MaxChan == 2
MaxWatchTime == 2
MaxWatchWindow == 1
MaxTreeDepth == 2
MaxParams == 4
MaxRow == 2

VARIABLES
    now,                   \* monotonic clock, Instant::now()
    supported_extensions,  \* ExtensionFilter.supported_extensions
    gitignore_file,        \* lines of .gitignore, None when the file is absent
    ignore_file,           \* lines of .ignore, None when the file is absent
    user_ignores,          \* caller-supplied pattern lines
    debounce_duration,     \* Debouncer.debounce_duration
    index_times,           \* Debouncer.index_times
    order,                 \* Debouncer.order
    last_admit,            \* history: time of the most recent true per path
    solo,                  \* history: per path, a debouncer given that path's calls alone
    ret,                   \* the call made by the last step and what it returned
    watched_files,         \* FileIndexer.watched_files
    watched_dirs,          \* FileIndexer.watched_dirs
    fi_debounce_duration,  \* FileIndexer.debounce_duration
    last_index_time,       \* FileIndexer.last_index_time
    code_extensions,       \* FileIndexer.code_extensions
    code_files_only,       \* FileIndexer.code_files_only
    chan,                  \* notifications sent by the backend, not yet received
    tx_alive,              \* the backend still holds the sending half
    pc,                    \* where start_watching is
    pending,               \* the event being handled and its paths still to do
    sent,                  \* number of notifications the backend has sent
    registered,            \* directories registered with the backend
    handled,               \* the (event, path) pairs the loop has processed, in order
    step,                  \* the path processed by the last step, in detail
    parsers,               \* LanguageParserRegistry.parsers
    extension_to_language, \* LanguageParserRegistry.extension_to_language
    claimed,               \* history: extensions of every parser registered so far
    parse_ret,             \* the registry call made by the last step and its result
    tree,                  \* the syntax tree handed to walk_tree
    file_events,           \* FileEvents.events
    visited,               \* history: the nodes walk_tree was called on, in order
    walked,                \* walk_tree has returned
    prior_events           \* history: the events the previous parse returned

dvars == <<supported_extensions, gitignore_file, ignore_file, user_ignores,
           debounce_duration, index_times, order, last_admit, solo, ret>>

wvars == <<watched_files, watched_dirs, fi_debounce_duration, last_index_time,
           code_extensions, code_files_only, chan, tx_alive, pc, pending,
           sent, registered, handled, step>>

pvars == <<parsers, extension_to_language, claimed, parse_ret, tree,
           file_events, visited, walked, prior_events>>

vars == <<now, dvars, wvars, pvars>>

\* ------------------------------------------------------------ Option<T>
None == <<>>
Some(x) == <<x>>

\* ------------------------------------------------------------ characters
Lower(c) ==
    CASE c = "R" -> "r"
      [] c = "S" -> "s"
      [] c = "D" -> "d"
      [] OTHER -> c

to_lowercase(s) == [i \in 1..Len(s) |-> Lower(s[i])]

\* ------------------------------------------------------------ std::path
RECURSIVE Split(_, _, _)
Split(s, cur, acc) ==
    IF s = <<>> THEN (IF cur = <<>> \/ cur = <<".">> THEN acc ELSE Append(acc, cur))
    ELSE IF Head(s) = "/"
         THEN Split(Tail(s), <<>>,
                    IF cur = <<>> \/ cur = <<".">> THEN acc ELSE Append(acc, cur))
         ELSE Split(Tail(s), Append(cur, Head(s)), acc)

\* Path::components: separators collapse, "." components vanish except a
\* leading one, a leading "/" is the root component.
Components(p) ==
    IF p # <<>> /\ Head(p) = "/"
    THEN <<<<"/">>>> \o Split(p, <<>>, <<>>)
    ELSE IF p = <<".">> \/ (Len(p) >= 2 /\ p[1] = "." /\ p[2] = "/")
         THEN <<<<".">>>> \o Split(p, <<>>, <<>>)
         ELSE Split(p, <<>>, <<>>)

\* Path::file_name: the last component unless it is "..".
file_name(p) ==
    LET cs == Components(p) IN
    IF cs = <<>> THEN None
    ELSE LET l == cs[Len(cs)] IN
         IF l \in {<<".", ".">>, <<".">>, <<"/">>} THEN None ELSE Some(l)

LastDot(f) ==
    LET D == {i \in 1..Len(f) : f[i] = "."} IN
    IF D = {} THEN 0 ELSE CHOOSE i \in D : \A j \in D : j <= i

\* Path::extension: the part of the file name after its last dot; None when
\* there is no file name, no dot, or the only dot is the first character.
extension(p) ==
    LET fn == file_name(p) IN
    IF fn = None THEN None
    ELSE LET f == fn[1]
             d == LastDot(f) IN
         IF d <= 1 THEN None ELSE Some(SubSeq(f, d + 1, Len(f)))

\* Path::starts_with: whole-component prefix.
starts_with(p, base) ==
    LET a == Components(p)
        b == Components(base) IN
    /\ Len(b) <= Len(a)
    /\ SubSeq(a, 1, Len(b)) = b

\* PathBuf built from components.
RECURSIVE Join(_)
Join(cs) ==
    IF cs = <<>> THEN <<>>
    ELSE IF Len(cs) = 1 THEN cs[1]
    ELSE IF cs[1] = <<"/">> THEN <<"/">> \o Join(Tail(cs))
    ELSE cs[1] \o <<"/">> \o Join(Tail(cs))

\* Path::parent: the path without its last component; None for the root and
\* for the empty path.
parent(p) ==
    LET cs == Components(p) IN
    IF cs = <<>> \/ cs = <<<<"/">>>> THEN None
    ELSE Some(Join(SubSeq(cs, 1, Len(cs) - 1)))

\* ------------------------------------------------------ ExtensionFilter
is_supported_lowercased(path) ==
    LET e == extension(path) IN
    IF e = None THEN FALSE ELSE to_lowercase(e[1]) \in supported_extensions

is_supported(path) ==
    LET e == extension(path) IN
    IF e = None THEN FALSE ELSE e[1] \in supported_extensions

\* -------------------------------------------------------- IgnoreMatcher
\* GitignoreBuilder::add_line: blank lines and comments add no rule, a
\* leading "!" makes the rule a whitelist (negated) rule.
ParseLine(line) ==
    IF line = <<>> \/ Head(line) = "#" THEN None
    ELSE IF Head(line) = "!"
         THEN Some([negated |-> TRUE, glob |-> Tail(line)])
         ELSE Some([negated |-> FALSE, glob |-> line])

RECURSIVE ParseLines(_)
ParseLines(lines) ==
    IF lines = <<>> THEN <<>>
    ELSE ParseLine(Head(lines)) \o ParseLines(Tail(lines))

FileLines(f) == IF f = None THEN <<>> ELSE f[1]

from_root_project_user_first(gitignore, ignore, user) ==
    ParseLines(user) \o ParseLines(FileLines(gitignore)) \o ParseLines(FileLines(ignore))

\* IgnoreMatcher::from_root_project: .gitignore, then .ignore, then the
\* caller's lines; an absent file contributes nothing.
from_root_project(gitignore, ignore, user) ==
    ParseLines(FileLines(gitignore)) \o ParseLines(FileLines(ignore)) \o ParseLines(user)

matcher == from_root_project(gitignore_file, ignore_file, user_ignores)

\* A glob without a separator: "*" stands for any run of non-separator
\* characters, every other character for itself.
RECURSIVE GlobMatch(_, _)
GlobMatch(pat, s) ==
    IF pat = <<>> THEN s = <<>>
    ELSE IF Head(pat) = "*"
         THEN \/ GlobMatch(Tail(pat), s)
              \/ (s # <<>> /\ Head(s) # "/" /\ GlobMatch(pat, Tail(s)))
         ELSE s # <<>> /\ Head(s) = Head(pat) /\ GlobMatch(Tail(pat), Tail(s))

\* A rule without a separator is matched against the path's last component.
RuleMatches(rule, path) ==
    LET fn == file_name(path) IN
    fn # None /\ GlobMatch(rule.glob, fn[1])

\* Gitignore::matched(path, false): scan the rules from the last to the
\* first and stop at the first one that matches.
RECURSIVE matched(_, _)
matched(rules, path) ==
    IF rules = <<>> THEN "None"
    ELSE LET r == rules[Len(rules)] IN
         IF RuleMatches(r, path)
         THEN (IF r.negated THEN "Whitelist" ELSE "Ignore")
         ELSE matched(SubSeq(rules, 1, Len(rules) - 1), path)

is_ignored(path) == matched(matcher, path) = "Ignore"

\* ------------------------------------------------------------ Debouncer
MapPut(m, k, v) == [x \in DOMAIN m \cup {k} |-> IF x = k THEN v ELSE m[x]]
MapRemove(m, k) == [x \in DOMAIN m \ {k} |-> m[x]]

\* Instant::duration_since saturates at zero.
duration_since(t, earlier) == IF t >= earlier THEN t - earlier ELSE 0

RECURSIVE cleanup(_, _, _, _)
cleanup(times, ord, d, current_time) ==
    IF ord = <<>> THEN [index_times |-> times, order |-> ord]
    ELSE IF duration_since(current_time, Head(ord).time) > d
         THEN cleanup(MapRemove(times, Head(ord).path), Tail(ord), d, current_time)
         ELSE [index_times |-> times, order |-> ord]

\* A debouncer with one clock for every path: a call inside the window of
\* the newest admission of any path is denied.
Debouncer_should_index_shared_clock(times, ord, d, path, t1, t2) ==
    LET c == cleanup(times, ord, d, t1) IN
    IF c.order # <<>>
       /\ duration_since(t2, c.order[Len(c.order)].time) < d
    THEN [index_times |-> c.index_times, order |-> c.order, result |-> FALSE]
    ELSE [index_times |-> MapPut(c.index_times, path, t2),
          order |-> Append(c.order, [path |-> path, time |-> t2]),
          result |-> TRUE]

Debouncer_should_index_no_cleanup(times, ord, d, path, t1, t2) ==
    IF path \in DOMAIN times /\ duration_since(t2, times[path]) < d
    THEN [index_times |-> times, order |-> ord, result |-> FALSE]
    ELSE [index_times |-> MapPut(times, path, t2),
          order |-> Append(ord, [path |-> path, time |-> t2]),
          result |-> TRUE]

\* Debouncer::should_index; t1 is the clock read by cleanup, t2 >= t1 the
\* clock read by should_index itself.
Debouncer_should_index(times, ord, d, path, t1, t2) ==
    LET c == cleanup(times, ord, d, t1) IN
    IF path \in DOMAIN c.index_times
       /\ duration_since(t2, c.index_times[path]) < d
    THEN [index_times |-> c.index_times, order |-> c.order, result |-> FALSE]
    ELSE [index_times |-> MapPut(c.index_times, path, t2),
          order |-> Append(c.order, [path |-> path, time |-> t2]),
          result |-> TRUE]

\* Debouncer::time_left
time_left(times, d, path, t) ==
    IF path \in DOMAIN times
    THEN LET elapsed == duration_since(t, times[path]) IN
         IF elapsed >= d THEN 0 ELSE d - elapsed
    ELSE d

\* --------------------------------------------------------- IndexDecider
IndexDecider_should_index_eager(times, ord, d, path, t1, t2) ==
    LET r == Debouncer_should_index(times, ord, d, path, t1, t2) IN
    [r EXCEPT !.result = ~is_ignored(path) /\ is_supported(path) /\ r.result]

IndexDecider_should_index_unnegated(times, ord, d, path, t1, t2) ==
    IF is_ignored(path)
    THEN IF is_supported(path)
         THEN Debouncer_should_index(times, ord, d, path, t1, t2)
         ELSE [index_times |-> times, order |-> ord, result |-> FALSE]
    ELSE [index_times |-> times, order |-> ord, result |-> FALSE]

\* IndexDecider::should_index: !is_ignored && is_supported && debouncer,
\* short-circuiting from the left.
IndexDecider_should_index(times, ord, d, path, t1, t2) ==
    IF ~is_ignored(path)
    THEN IF is_supported(path)
         THEN Debouncer_should_index(times, ord, d, path, t1, t2)
         ELSE [index_times |-> times, order |-> ord, result |-> FALSE]
    ELSE [index_times |-> times, order |-> ord, result |-> FALSE]

\* IndexDecider::debounce_duration_left
debounce_duration_left(times, d, path, t) == time_left(times, d, path, t)

\* ------------------------------------------------------- inputs
a_rs == <<"a", ".", "r", "s">>
a_RS == <<"a", ".", "R", "S">>
b_py == <<"b", ".", "p", "y">>
a_log == <<"a", ".", "l", "o", "g">>
keep_log == <<"k", "e", "e", "p", ".", "l", "o", "g">>
no_ext == <<"a">>
dot_rs == <<".", "r", "s">>
d_rs_a == <<"d", ".", "r", "s", "/", "a">>
d_a_rs == <<"d", "/", "a", ".", "r", "s">>
d_keep_log == <<"d", "/", "k", "e", "e", "p", ".", "l", "o", "g">>

star_log == <<"*", ".", "l", "o", "g">>
not_keep_log == <<"!">> \o keep_log
comment_line == <<"#", "x">>

rs == <<"r", "s">>
py == <<"p", "y">>
log == <<"l", "o", "g">>

DeciderPaths == {a_rs, a_RS, a_log, keep_log}
FilterPaths == {a_rs, a_RS, b_py, a_log, keep_log, no_ext, dot_rs, d_rs_a,
                d_a_rs, d_keep_log}

Allowlists == {{rs, py}, {rs, log}, {rs, py, log}, {}}
IgnoreFiles == {None, Some(<<star_log>>), Some(<<not_keep_log>>),
                Some(<<comment_line, star_log, not_keep_log>>)}
UserLines == {<<>>, <<star_log>>, <<not_keep_log>>, <<star_log, not_keep_log>>}

DeciderConfigs ==
    {[ext |-> {rs, py}, gitignore |-> None, ignore |-> None, user |-> <<>>],
     [ext |-> {rs, log}, gitignore |-> Some(<<star_log>>), ignore |-> None,
      user |-> <<not_keep_log>>]}

NoCall == [op |-> "none", path |-> <<>>, t1 |-> 0, t2 |-> 0, result |-> FALSE,
           left |-> 0, pre_times |-> <<>>, pre_order |-> <<>>, prev_admit |-> None,
           alone |-> FALSE]

\* Debouncer::new: no timestamps, an empty queue.
Debouncer_new == [index_times |-> <<>>, order |-> <<>>]

NoStep == [ev |-> 0, kind |-> "none", path |-> <<>>, at |-> "absent",
           call |-> "none", outcome |-> "none", t |-> 0, pre_last |-> None,
           post_last |-> None]

\* ------------------------------------------- LanguageParserRegistry
pyw == <<"p", "y", "w">>
pyi == <<"p", "y", "i">>

\* PythonParser::language_name and PythonParser::file_extensions.
PythonParser == [language_name |-> "python", file_extensions |-> <<py, pyw, pyi>>]

\* Parsers a caller may register: a new language, a second parser under the
\* name "python", and one that claims extensions of both.
RustParser == [language_name |-> "rust", file_extensions |-> <<rs>>]
PythonLiteParser == [language_name |-> "python", file_extensions |-> <<py>>]
StubParser == [language_name |-> "stub", file_extensions |-> <<pyi, rs>>]
CallerParsers == {RustParser, PythonLiteParser, StubParser}

a_py == <<"a", ".", "p", "y">>
a_PY == <<"a", ".", "P", "Y">>
a_pyi == <<"a", ".", "p", "y", "i">>
a_pyw == <<"a", ".", "p", "y", "w">>
dot_py == <<".", "p", "y">>
RegistryPaths == {a_py, a_PY, a_pyi, a_pyw, a_rs, a_RS, a_log, no_ext, dot_py}

\* The for loop of register_parser: one insert per extension, in order.
RECURSIVE InsertExtensions(_, _, _)
InsertExtensions(e2l, exts, language_name) ==
    IF exts = <<>> THEN e2l
    ELSE InsertExtensions(MapPut(e2l, Head(exts), language_name), Tail(exts),
                          language_name)

register_parser_replacing(ps, e2l, parser) ==
    [parsers |-> MapPut(<<>>, parser.language_name, parser),
     extension_to_language |->
         InsertExtensions(<<>>, parser.file_extensions, parser.language_name)]

\* LanguageParserRegistry::register_parser
register_parser(ps, e2l, parser) ==
    [parsers |-> MapPut(ps, parser.language_name, parser),
     extension_to_language |->
         InsertExtensions(e2l, parser.file_extensions, parser.language_name)]

\* LanguageParserRegistry::new
Registry_new == register_parser(<<>>, <<>>, PythonParser)

\* LanguageParserRegistry::get_parser_for_file
get_parser_for_file(ps, e2l, file_path) ==
    LET e == extension(file_path) IN
    IF e = None THEN None
    ELSE IF e[1] \notin DOMAIN e2l THEN None
    ELSE IF e2l[e[1]] \notin DOMAIN ps THEN None
    ELSE Some(ps[e2l[e[1]]])

Registry_parse_file_strict(ps, e2l, file_path, parse_ok) ==
    LET parser == get_parser_for_file(ps, e2l, file_path) IN
    IF parser # None
    THEN [result |-> IF parse_ok THEN "some" ELSE "err", invoked |-> parser]
    ELSE [result |-> "err", invoked |-> None]

\* LanguageParserRegistry::parse_file; parse_ok says whether the parser's
\* own parse_file succeeds.  invoked is the parser it called, if any.
Registry_parse_file(ps, e2l, file_path, parse_ok) ==
    LET parser == get_parser_for_file(ps, e2l, file_path) IN
    IF parser # None
    THEN [result |-> IF parse_ok THEN "some" ELSE "err", invoked |-> parser]
    ELSE [result |-> "none", invoked |-> None]

NoParse == [op |-> "none", path |-> <<>>, result |-> "none", invoked |-> None]

\* ------------------------------------------------- syntax trees
\* A tree_sitter::Node: its kind, its text (the slice of the source it spans,
\* as characters), the rows of its first and last character, its children in
\* order, and for each field name the index of the child carrying it (0: no
\* such child).
NoFields ==
    [name |-> 0, parameters |-> 0, return_type |-> 0, body |-> 0,
     type |-> 0, value |-> 0]

Node(kind, text, children, field) ==
    [kind |-> kind, text |-> text, start_row |-> 0, end_row |-> 0,
     children |-> children, field |-> field]

Leaf(kind, text) == Node(kind, text, <<>>, NoFields)

Inner(kind, children) == Node(kind, <<>>, children, NoFields)

\* LanguageParser::node_text: the slice of the source the node spans.
node_text(node) == node.text

\* Node::child_by_field_name
child_by_field_name(node, f) ==
    IF node.field[f] = 0 THEN None ELSE Some(node.children[node.field[f]])

pass_statement == Leaf("pass_statement", <<"p", "a", "s", "s">>)
\* The type int: a type node spanning the identifier int.
type_int ==
    Node("type", <<"i", "n", "t">>, <<Leaf("identifier", <<"i", "n", "t">>)>>,
         NoFields)

parameters_x ==
    Inner("parameters", <<Leaf("(", <<"(">>), Leaf("identifier", <<"x">>), Leaf(")", <<")">>)>>)

\* def f(x): <body>
FunctionNode(body) ==
    Node("function_definition", <<>>,
         <<Leaf("def", <<"d", "e", "f">>), Leaf("identifier", <<"f">>),
           parameters_x, Leaf(":", <<":">>), body>>,
         [NoFields EXCEPT !.name = 2, !.parameters = 3, !.body = 5])

\* def _g(x) -> int: pass
function_g ==
    Node("function_definition", <<>>,
         <<Leaf("def", <<"d", "e", "f">>), Leaf("identifier", <<"_", "g">>),
           parameters_x, Leaf("->", <<"-", ">">>), type_int, Leaf(":", <<":">>),
           Inner("block", <<pass_statement>>)>>,
         [NoFields EXCEPT !.name = 2, !.parameters = 3, !.return_type = 5,
                          !.body = 7])

\* A function_definition whose body the parser could not recover.
function_no_body ==
    Node("function_definition", <<>>,
         <<Leaf("def", <<"d", "e", "f">>), Leaf("identifier", <<"h">>),
           parameters_x, Leaf(":", <<":">>)>>,
         [NoFields EXCEPT !.name = 2, !.parameters = 3])

\* class C: <body>
ClassNode(body) ==
    Inner("class_definition",
          <<Leaf("class", <<"c", "l", "a", "s", "s">>), Leaf("identifier", <<"C">>), Leaf(":", <<":">>), body>>)

\* The blocks over the statements S: one statement, a pass before it, or the
\* function _g after it.
Blocks(S) ==
    {Inner("block", <<st>>) : st \in S}
        \cup {Inner("block", <<pass_statement, st>>) : st \in S}
        \cup {Inner("block", <<st, function_g>>) : st \in S}

\* Statements nested at most n deep.
RECURSIVE Statements(_)
Statements(n) ==
    IF n = 0 THEN {pass_statement}
    ELSE LET B == Blocks(Statements(n - 1)) IN
         {pass_statement, function_no_body}
             \cup {FunctionNode(b) : b \in B}
             \cup {ClassNode(b) : b \in B}

empty_module == Inner("module", <<>>)

Trees ==
    {empty_module}
        \cup {Inner("module", <<st>>) : st \in Statements(MaxTreeDepth)}
        \cup {Inner("module", <<st, function_g>>) : st \in Statements(MaxTreeDepth)}

\* ------------------------------------------------- function signatures
\* The children of a parameters node as the tree-sitter-python grammar shapes
\* them.  typed_parameter is seq(identifier, ":", field("type", type)): its
\* identifier carries no field name.  default_parameter and
\* typed_default_parameter carry the fields name, (type,) value.
param_a == Leaf("identifier", <<"a">>)

\* b: int
param_b_int ==
    Node("typed_parameter", <<"b", ":", " ", "i", "n", "t">>,
         <<Leaf("identifier", <<"b">>), Leaf(":", <<":">>), type_int>>,
         [NoFields EXCEPT !.type = 3])

\* c=1
param_c_1 ==
    Node("default_parameter", <<"c", "=", "1">>,
         <<Leaf("identifier", <<"c">>), Leaf("=", <<"=">>),
           Leaf("integer", <<"1">>)>>,
         [NoFields EXCEPT !.name = 1, !.value = 3])

\* d: int = 2
param_d_int_2 ==
    Node("typed_default_parameter",
         <<"d", ":", " ", "i", "n", "t", " ", "=", " ", "2">>,
         <<Leaf("identifier", <<"d">>), Leaf(":", <<":">>), type_int,
           Leaf("=", <<"=">>), Leaf("integer", <<"2">>)>>,
         [NoFields EXCEPT !.name = 1, !.type = 3, !.value = 5])

\* *args
param_args ==
    Node("list_splat_pattern", <<"*", "a", "r", "g", "s">>,
         <<Leaf("*", <<"*">>), Leaf("identifier", <<"a", "r", "g", "s">>)>>,
         NoFields)

ParamNodes == {param_a, param_b_int, param_c_1, param_d_int_2, param_args}

ParamLists == UNION {[1..n -> ParamNodes] : n \in 0..MaxParams}

\* The declared parameters separated by commas.
RECURSIVE CommaSeparated(_)
CommaSeparated(ps) ==
    IF Len(ps) <= 1 THEN ps
    ELSE <<Head(ps), Leaf(",", <<",">>)>> \o CommaSeparated(Tail(ps))

ParametersNode(ps) ==
    Inner("parameters",
          <<Leaf("(", <<"(">>)>> \o CommaSeparated(ps) \o <<Leaf(")", <<")">>)>>)

foo == <<"f", "o", "o">>
_foo == <<"_", "f", "o", "o">>
f_ == <<"f", "_">>
FunctionNames == {foo, _foo, f_, <<"_">>, <<>>}

\* def <name>(<ps>) [-> int]: pass, spanning the rows start_row..end_row.
\* return_type is None or Some(type node).
DefNode(name, ps, return_type, start_row, end_row) ==
    LET head == <<Leaf("def", <<"d", "e", "f">>), Leaf("identifier", name),
                  ParametersNode(ps)>>
        arrow == IF return_type = None THEN <<>>
                 ELSE <<Leaf("->", <<"-", ">">>), return_type[1]>>
        children == head \o arrow
                        \o <<Leaf(":", <<":">>), Inner("block", <<pass_statement>>)>> IN
    [kind |-> "function_definition", text |-> <<>>,
     start_row |-> start_row, end_row |-> end_row,
     children |-> children,
     field |-> [NoFields EXCEPT !.name = 2, !.parameters = 3,
                                !.return_type = IF return_type = None THEN 0 ELSE 5,
                                !.body = Len(children)]]

\* def foo(a, b: int, c=1, d: int = 2):
\*     pass
def_foo == DefNode(foo, <<param_a, param_b_int, param_c_1, param_d_int_2>>, None, 0, 1)

\* Modules of one function: every parameter list under the name foo, and
\* every name, return type and pair of rows over the parameter a.
SignatureTrees ==
    {Inner("module", <<DefNode(foo, ps, None, 0, 1)>>) : ps \in ParamLists}
        \cup {Inner("module", <<DefNode(n, <<param_a>>, r, rows[1], rows[2])>>) :
                 n \in FunctionNames, r \in {None, Some(type_int)},
                 rows \in {rs_ \in (0..MaxRow) \X (0..MaxRow) : rs_[1] <= rs_[2]}}

\* ------------------------------------------------- PythonParser
\* str::starts_with(char)
starts_with_char(str, c) == Len(str) > 0 /\ str[1] = c

\* One iteration of the loop of PythonParser::extract_parameters: the
\* strings pushed for the child.
render_parameter(child) ==
    LET name_node == child_by_field_name(child, "name")
        param_type == <<":", " ">> \o node_text(child_by_field_name(child, "type")[1])
        default_value ==
            <<" ", "=", " ">> \o node_text(child_by_field_name(child, "value")[1]) IN
    CASE child.kind = "identifier" -> <<node_text(child)>>
      [] child.kind = "typed_parameter" ->
            IF name_node # None
            THEN <<node_text(name_node[1]) \o param_type>>
            ELSE <<>>
      [] child.kind = "default_parameter" ->
            IF name_node # None
            THEN <<node_text(name_node[1]) \o default_value>>
            ELSE <<>>
      [] child.kind = "typed_default_parameter" ->
            IF name_node # None
            THEN <<node_text(name_node[1]) \o param_type \o default_value>>
            ELSE <<>>
      [] OTHER -> <<>>

RECURSIVE extract_from(_, _)
extract_from(children, i) ==
    IF i > Len(children) THEN <<>>
    ELSE render_parameter(children[i]) \o extract_from(children, i + 1)

\* PythonParser::extract_parameters
extract_parameters(params_node) == extract_from(params_node.children, 1)

\* PythonParser::parse_function.  node is the position of the function node
\* in the tree, the sequence of child indexes leading to it from the root.
parse_function_zero_based(node, pos) ==
    LET name == node_text(child_by_field_name(node, "name")[1])
        params_node == child_by_field_name(node, "parameters")
        return_node == child_by_field_name(node, "return_type") IN
    [type |-> "FunctionDefinition", node |-> pos, name |-> name,
     start_line |-> node.start_row, end_line |-> node.end_row,
     parameters |-> IF params_node # None
                    THEN extract_parameters(params_node[1]) ELSE <<>>,
     return_type |-> IF return_node # None
                     THEN Some(node_text(return_node[1])) ELSE None,
     is_public |-> ~starts_with_char(name, "_")]

parse_function(node, pos) ==
    LET name == node_text(child_by_field_name(node, "name")[1])
        params_node == child_by_field_name(node, "parameters")
        return_node == child_by_field_name(node, "return_type") IN
    [type |-> "FunctionDefinition", node |-> pos, name |-> name,
     start_line |-> node.start_row + 1, end_line |-> node.end_row + 1,
     parameters |-> IF params_node # None
                    THEN extract_parameters(params_node[1]) ELSE <<>>,
     return_type |-> IF return_node # None
                     THEN Some(node_text(return_node[1])) ELSE None,
     is_public |-> ~starts_with_char(name, "_")]

RECURSIVE walk_tree(_, _, _)

parse_node_descend_all(node, pos, acc) ==
    IF node.kind = "function_definition"
    THEN LET acc1 == [acc EXCEPT !.events = Append(@, parse_function(node, pos))]
             body == child_by_field_name(node, "body")
             acc2 == IF body # None
                     THEN walk_tree(body[1], Append(pos, node.field.body), acc1)
                     ELSE acc1 IN
         [should_parse_children |-> TRUE, acc |-> acc2]
    ELSE [should_parse_children |-> TRUE, acc |-> acc]

parse_node_class_rule(node, pos, acc) ==
    IF node.kind = "function_definition"
    THEN LET acc1 == [acc EXCEPT !.events = Append(@, parse_function(node, pos))]
             body == child_by_field_name(node, "body")
             acc2 == IF body # None
                     THEN walk_tree(body[1], Append(pos, node.field.body), acc1)
                     ELSE acc1 IN
         [should_parse_children |-> FALSE, acc |-> acc2]
    ELSE IF node.kind = "class_definition"
    THEN [should_parse_children |-> FALSE, acc |-> acc]
    ELSE [should_parse_children |-> TRUE, acc |-> acc]

\* parse_node with the class_definition arm of python.rs:50-55 live: the arm
\* calls parse_class, which is todo!().
parse_node_unimplemented_arm(node, pos, acc) ==
    IF node.kind = "function_definition"
    THEN IF child_by_field_name(node, "name") = None
         THEN [should_parse_children |-> FALSE,
               acc |-> [acc EXCEPT !.aborted = TRUE]]
         ELSE
         LET acc1 == [acc EXCEPT !.events = Append(@, parse_function(node, pos))]
             body == child_by_field_name(node, "body")
             acc2 == IF body # None
                     THEN walk_tree(body[1], Append(pos, node.field.body), acc1)
                     ELSE acc1 IN
         [should_parse_children |-> FALSE, acc |-> acc2]
    ELSE IF node.kind = "class_definition"
    THEN [should_parse_children |-> FALSE, acc |-> [acc EXCEPT !.aborted = TRUE]]
    ELSE [should_parse_children |-> TRUE, acc |-> acc]

\* PythonParser::parse_node.  acc is the FileEvents being filled, with the
\* history of visited positions and whether the traversal was aborted (a
\* panic, or an Err propagated by ?); the result is should_parse_children
\* and acc as the call leaves it.  The unwrap of parse_function on a node
\* without the name field panics.  Every kind but function_definition takes
\* the default arm: the arms of 49-159 are commented out.
parse_node(node, pos, acc) ==
    IF node.kind = "function_definition"
    THEN IF child_by_field_name(node, "name") = None
         THEN [should_parse_children |-> FALSE,
               acc |-> [acc EXCEPT !.aborted = TRUE]]
         ELSE
         LET acc1 == [acc EXCEPT !.events = Append(@, parse_function(node, pos))]
             body == child_by_field_name(node, "body")
             acc2 == IF body # None
                     THEN walk_tree(body[1], Append(pos, node.field.body), acc1)
                     ELSE acc1 IN
         [should_parse_children |-> FALSE, acc |-> acc2]
    ELSE [should_parse_children |-> TRUE, acc |-> acc]

\* The for loop of walk_tree over node.children, from child i on.
RECURSIVE walk_children(_, _, _, _)
walk_children(node, pos, i, acc) ==
    IF i > Len(node.children) THEN acc
    ELSE walk_children(node, pos, i + 1,
                       walk_tree(node.children[i], Append(pos, i), acc))

\* PythonParser::walk_tree.  Once the traversal is aborted nothing more runs.
walk_tree(node, pos, acc) ==
    IF acc.aborted THEN acc
    ELSE LET r == parse_node(node, pos, [acc EXCEPT !.visited = Append(@, pos)]) IN
         IF r.should_parse_children /\ ~r.acc.aborted
         THEN walk_children(node, pos, 1, r.acc)
         ELSE r.acc

\* The registry as LanguageParserRegistry::new leaves it, nothing parsed.
ParserIdle ==
    /\ parsers = Registry_new.parsers
    /\ extension_to_language = Registry_new.extension_to_language
    /\ claimed = {py, pyw, pyi}
    /\ parse_ret = NoParse
    /\ tree = empty_module
    /\ file_events = <<>>
    /\ visited = <<>>
    /\ walked = FALSE
    /\ prior_events = <<>>

\* The FileIndexer as FileIndexer::new leaves it, never started.
WatcherIdle ==
    /\ watched_files = {}
    /\ watched_dirs = {}
    /\ fi_debounce_duration = 1
    /\ last_index_time = None
    /\ code_extensions = {}
    /\ code_files_only = FALSE
    /\ chan = <<>>
    /\ tx_alive = FALSE
    /\ pc = "new"
    /\ pending = None
    /\ sent = 0
    /\ registered = {}
    /\ handled = <<>>
    /\ step = NoStep

\* ------------------------------------------------------- Spec: IndexDecider
Init ==
    /\ now = 0
    /\ \E c \in DeciderConfigs :
          /\ supported_extensions = c.ext
          /\ gitignore_file = c.gitignore
          /\ ignore_file = c.ignore
          /\ user_ignores = c.user
    /\ debounce_duration \in 1..MaxWindow
    /\ index_times = <<>>
    /\ order = <<>>
    /\ last_admit = [p \in DeciderPaths |-> None]
    /\ solo = [p \in DeciderPaths |-> Debouncer_new]
    /\ ret = NoCall
    /\ WatcherIdle
    /\ ParserIdle

Config == <<supported_extensions, gitignore_file, ignore_file, user_ignores,
            debounce_duration>>

\* Time passes between calls.
Tick ==
    /\ now < MaxTime
    /\ now' = now + 1
    /\ ret' = NoCall
    /\ UNCHANGED <<Config, index_times, order, last_admit, solo, wvars, pvars>>

\* A caller invokes IndexDecider::should_index(p).
ShouldIndex(p) ==
    \E skew \in 0..MaxSkew :
        /\ now + skew <= MaxTime
        /\ LET r == IndexDecider_should_index(index_times, order,
                        debounce_duration, p, now, now + skew)
               a == IndexDecider_should_index(solo[p].index_times, solo[p].order,
                        debounce_duration, p, now, now + skew) IN
           /\ solo' = [solo EXCEPT ![p] = [index_times |-> a.index_times,
                                           order |-> a.order]]
           /\ index_times' = r.index_times
           /\ order' = r.order
           /\ last_admit' = IF r.result
                            THEN [last_admit EXCEPT ![p] = Some(now + skew)]
                            ELSE last_admit
           /\ ret' = [op |-> "should_index", path |-> p, t1 |-> now,
                      t2 |-> now + skew, result |-> r.result, left |-> 0,
                      pre_times |-> index_times, pre_order |-> order,
                      prev_admit |-> last_admit[p], alone |-> a.result]
        /\ now' = now + skew
        /\ UNCHANGED <<Config, wvars, pvars>>

\* A caller invokes IndexDecider::debounce_duration_left(p).
DebounceDurationLeft(p) ==
    /\ ret' = [op |-> "time_left", path |-> p, t1 |-> now, t2 |-> now,
               result |-> FALSE,
               left |-> debounce_duration_left(index_times, debounce_duration, p, now),
               pre_times |-> index_times, pre_order |-> order,
               prev_admit |-> last_admit[p], alone |-> FALSE]
    /\ UNCHANGED <<now, Config, index_times, order, last_admit, solo, wvars, pvars>>

Next ==
    \/ Tick
    \/ \E p \in DeciderPaths : ShouldIndex(p)
    \/ \E p \in DeciderPaths : DebounceDurationLeft(p)

Spec == Init /\ [][Next]_vars

\* ------------------------------------------- SpecFilters: the two filters
\* Every allowlist and rule set, the debouncer left idle.
InitFilters ==
    /\ now = 0
    /\ supported_extensions \in Allowlists
    /\ gitignore_file \in IgnoreFiles
    /\ ignore_file \in IgnoreFiles
    /\ user_ignores \in UserLines
    /\ debounce_duration = 1
    /\ index_times = <<>>
    /\ order = <<>>
    /\ last_admit = [p \in DeciderPaths |-> None]
    /\ solo = [p \in DeciderPaths |-> Debouncer_new]
    /\ ret = NoCall
    /\ WatcherIdle
    /\ ParserIdle

\* A caller invokes ExtensionFilter::is_supported(p).
IsSupported(p) ==
    /\ ret' = [NoCall EXCEPT !.op = "is_supported", !.path = p,
                             !.result = is_supported(p)]
    /\ UNCHANGED <<now, Config, index_times, order, last_admit, solo, wvars, pvars>>

\* A caller invokes IgnoreMatcher::is_ignored(p).
IsIgnored(p) ==
    /\ ret' = [NoCall EXCEPT !.op = "is_ignored", !.path = p,
                             !.result = is_ignored(p)]
    /\ UNCHANGED <<now, Config, index_times, order, last_admit, solo, wvars, pvars>>

NextFilters ==
    \/ \E p \in FilterPaths : IsSupported(p)
    \/ \E p \in FilterPaths : IsIgnored(p)

SpecFilters == InitFilters /\ [][NextFilters]_vars

\* ------------------------------------------------- FileIndexer (watcher)
dir_d == <<"d">>
d_sub == <<"d", "/", "s">>
x_a_rs == <<"x", "/", "a", ".", "r", "s">>

WatchableFiles == {x_a_rs}
WatchableDirs == {dir_d}

\* What each path can be on disk.
FsKinds(p) ==
    CASE p = d_a_rs -> {"absent", "file"}
      [] p = d_sub -> {"absent", "dir"}
      [] OTHER -> {"absent", "file"}

EventKinds == {"Create", "Remove", "ModifyData", "ModifyName", "Other"}
EventPathLists == {<<x_a_rs>>, <<d_a_rs, d_sub>>}

\* The extensions of FileIndexer::new's list that the paths here can carry.
DefaultCodeExtensions == {rs, py}

exists(kind) == kind # "absent"
is_file(kind) == kind = "file"

\* FileIndexer::is_code_file
is_code_file(path) ==
    IF ~code_files_only THEN TRUE
    ELSE LET e == extension(path) IN
         IF e = None THEN FALSE ELSE to_lowercase(e[1]) \in code_extensions

\* HashSet<PathBuf>::contains: PathBuf equality compares components.
contains(set, path) == \E f \in set : Components(f) = Components(path)

is_watched_files_or_dirs(path) ==
    \/ contains(watched_files, path)
    \/ \E dir \in watched_dirs : starts_with(path, dir)

\* The watched test of FileIndexer::should_index.
is_watched(path) ==
    IF watched_files # {} THEN contains(watched_files, path)
    ELSE IF watched_dirs # {} THEN \E dir \in watched_dirs : starts_with(path, dir)
    ELSE FALSE

\* The watched test the Remove and Modify(Name) arms repeat.
would_be_indexed(path) ==
    IF watched_files # {} THEN contains(watched_files, path)
    ELSE IF watched_dirs # {} THEN \E dir \in watched_dirs : starts_with(path, dir)
    ELSE FALSE

\* FileIndexer::should_index at clock t: watched, code file, then the one
\* debounce clock shared by every path.
FileIndexer_should_index(path, t) ==
    IF ~is_watched(path) THEN [result |-> FALSE, last |-> last_index_time]
    ELSE IF ~is_code_file(path) THEN [result |-> FALSE, last |-> last_index_time]
    ELSE IF last_index_time # None
            /\ duration_since(t, last_index_time[1]) < fi_debounce_duration
         THEN [result |-> FALSE, last |-> last_index_time]
         ELSE [result |-> TRUE, last |-> Some(t)]

\* FileIndexer::index_file, given what the path is when it is read and
\* whether read_to_string succeeds on a regular file.
index_file(kind_at_read, read_ok) ==
    IF ~exists(kind_at_read) THEN "skipped"
    ELSE IF is_file(kind_at_read) /\ read_ok THEN "ok" ELSE "err"

\* FileIndexer::handle_file_creation
handle_file_creation(path, kind_at_read, read_ok) ==
    IF is_code_file(path) THEN index_file(kind_at_read, read_ok) ELSE "ok"

\* FileIndexer::handle_file_deletion
handle_file_deletion(path) == "ok"

\* handle_event, Modify(Data) arm, for one path.
HandleModifyData(path, kind, t) ==
    LET s == FileIndexer_should_index(path, t) IN
    [call |-> IF s.result THEN "index" ELSE "none", last |-> s.last]

\* handle_event, Create arm, for one path.
HandleCreate(path, kind, t) ==
    IF is_file(kind)
    THEN LET s == FileIndexer_should_index(path, t) IN
         [call |-> IF s.result THEN "creation" ELSE "none", last |-> s.last]
    ELSE [call |-> "none", last |-> last_index_time]

HandleRemove_debounced(path, kind, t) ==
    LET s == FileIndexer_should_index(path, t) IN
    [call |-> IF s.result THEN "deletion" ELSE "none", last |-> s.last]

\* handle_event, Remove arm, for one path.
HandleRemove(path, kind, t) ==
    [call |-> IF would_be_indexed(path) /\ is_code_file(path)
              THEN "deletion" ELSE "none",
     last |-> last_index_time]

HandleModifyName_no_exists_check(path, kind, t) ==
    LET s == FileIndexer_should_index(path, t) IN
    [call |-> IF s.result THEN "creation" ELSE "none", last |-> s.last]

\* handle_event, Modify(Name) arm, for one path.
HandleModifyName(path, kind, t) ==
    IF exists(kind)
    THEN LET s == FileIndexer_should_index(path, t) IN
         [call |-> IF s.result THEN "creation" ELSE "none", last |-> s.last]
    ELSE [call |-> IF would_be_indexed(path) /\ is_code_file(path)
                   THEN "deletion" ELSE "none",
          last |-> last_index_time]

\* handle_event's match on the event kind, for one path.
handle_event(ekind, path, kind, t) ==
    CASE ekind = "ModifyData" -> HandleModifyData(path, kind, t)
      [] ekind = "Create" -> HandleCreate(path, kind, t)
      [] ekind = "Remove" -> HandleRemove(path, kind, t)
      [] ekind = "ModifyName" -> HandleModifyName(path, kind, t)
      [] OTHER -> [call |-> "none", last |-> last_index_time]

\* What the handler called for the path returned.
Outcome(call, path, kind_at_read, read_ok) ==
    CASE call = "index" -> index_file(kind_at_read, read_ok)
      [] call = "creation" -> handle_file_creation(path, kind_at_read, read_ok)
      [] call = "deletion" -> handle_file_deletion(path)
      [] OTHER -> "none"

dirs_to_watch_dirs_only == watched_dirs

\* start_watching: the parents of the watched files join the watched dirs.
dirs_to_watch ==
    watched_dirs \cup {parent(f)[1] : f \in {g \in watched_files : parent(g) # None}}

InitWatcher ==
    /\ now = 0
    /\ supported_extensions = {}
    /\ gitignore_file = None
    /\ ignore_file = None
    /\ user_ignores = <<>>
    /\ debounce_duration = 1
    /\ index_times = <<>>
    /\ order = <<>>
    /\ last_admit = [p \in DeciderPaths |-> None]
    /\ solo = [p \in DeciderPaths |-> Debouncer_new]
    /\ ret = NoCall
    /\ watched_files = {}
    /\ watched_dirs = {}
    /\ fi_debounce_duration \in 1..MaxWatchWindow
    /\ last_index_time = None
    /\ code_extensions = DefaultCodeExtensions
    /\ code_files_only = FALSE
    /\ chan = <<>>
    /\ tx_alive = FALSE
    /\ pc = "new"
    /\ pending = None
    /\ sent = 0
    /\ registered = {}
    /\ handled = <<>>
    /\ step = NoStep
    /\ ParserIdle

WConfig == <<watched_files, watched_dirs, fi_debounce_duration, code_extensions,
             code_files_only>>

\* FileIndexer::watch_directory
WatchDirectory(dir) ==
    /\ pc = "new"
    /\ watched_dirs' = watched_dirs \cup {dir}
    /\ UNCHANGED <<now, dvars, pvars, watched_files, fi_debounce_duration,
                   last_index_time, code_extensions, code_files_only, chan,
                   tx_alive, pc, pending, sent, registered, handled, step>>

\* FileIndexer::add_file
AddFile(f) ==
    /\ pc = "new"
    /\ watched_files' = watched_files \cup {f}
    /\ UNCHANGED <<now, dvars, pvars, watched_dirs, fi_debounce_duration,
                   last_index_time, code_extensions, code_files_only, chan,
                   tx_alive, pc, pending, sent, registered, handled, step>>

\* FileIndexer::code_files_only
CodeFilesOnly ==
    /\ pc = "new"
    /\ ~code_files_only
    /\ code_files_only' = TRUE
    /\ UNCHANGED <<now, dvars, pvars, watched_files, watched_dirs, fi_debounce_duration,
                   last_index_time, code_extensions, chan, tx_alive, pc,
                   pending, sent, registered, handled, step>>

\* start_watching up to the loop: the backend is created, then every
\* directory of dirs_to_watch is registered; either step can fail, and an
\* empty dirs_to_watch is refused.  accepted holds the directories watch()
\* took before one was refused.
StartWatching ==
    /\ pc = "new"
    /\ \E new_ok \in BOOLEAN, accepted \in SUBSET dirs_to_watch :
          IF ~new_ok \/ dirs_to_watch = {}
          THEN /\ pc' = "failed"
               /\ UNCHANGED <<registered, tx_alive>>
          ELSE IF accepted # dirs_to_watch
          THEN /\ pc' = "failed"
               /\ registered' = accepted
               /\ UNCHANGED tx_alive
          ELSE /\ pc' = "loop"
               /\ registered' = dirs_to_watch
               /\ tx_alive' = TRUE
    /\ UNCHANGED <<now, dvars, pvars, WConfig, last_index_time, chan, pending,
                   sent, handled, step>>

Running == pc \in {"loop", "handling"}

\* Time passes while the watcher runs.
TickWatcher ==
    /\ Running
    /\ now < MaxWatchTime
    /\ now' = now + 1
    /\ step' = NoStep
    /\ UNCHANGED <<dvars, pvars, WConfig, last_index_time, chan, tx_alive, pc, pending,
                   sent, registered, handled>>

\* The backend delivers an event.
Notify(ekind, paths) ==
    /\ Running
    /\ tx_alive
    /\ sent < MaxEvents
    /\ Len(chan) < MaxChan
    /\ chan' = Append(chan, [tag |-> "event", kind |-> ekind, paths |-> paths])
    /\ sent' = sent + 1
    /\ step' = NoStep
    /\ UNCHANGED <<now, dvars, pvars, WConfig, last_index_time, tx_alive, pc,
                   pending, registered, handled>>

\* The backend delivers an error.
NotifyError ==
    /\ Running
    /\ tx_alive
    /\ sent < MaxEvents
    /\ Len(chan) < MaxChan
    /\ chan' = Append(chan, [tag |-> "error", kind |-> "Error", paths |-> <<>>])
    /\ sent' = sent + 1
    /\ step' = NoStep
    /\ UNCHANGED <<now, dvars, pvars, WConfig, last_index_time, tx_alive, pc,
                   pending, registered, handled>>

\* The sending half is dropped.
CloseChannel ==
    /\ Running
    /\ tx_alive
    /\ tx_alive' = FALSE
    /\ step' = NoStep
    /\ UNCHANGED <<now, dvars, pvars, WConfig, last_index_time, chan, pc, pending,
                   sent, registered, handled>>

Recv_newest_first ==
    /\ pc = "loop"
    /\ chan # <<>>
    /\ LET msg == chan[Len(chan)]
           serial == sent IN
       IF msg.tag = "event"
       THEN /\ IF msg.paths = <<>>
               THEN UNCHANGED <<pc, pending>>
               ELSE /\ pc' = "handling"
                    /\ pending' = Some([ev |-> serial, kind |-> msg.kind,
                                        paths |-> msg.paths])
            /\ UNCHANGED handled
       ELSE /\ handled' = Append(handled,
                    [ev |-> serial, path |-> <<>>])
            /\ UNCHANGED <<pc, pending>>
    /\ step' = NoStep
    /\ chan' = SubSeq(chan, 1, Len(chan) - 1)
    /\ UNCHANGED <<now, dvars, pvars, WConfig, last_index_time, tx_alive, sent,
                   registered>>

\* rx.recv() returns a message.
Recv ==
    /\ pc = "loop"
    /\ chan # <<>>
    /\ LET msg == Head(chan)
           serial == sent - Len(chan) + 1 IN
       IF msg.tag = "event"
       THEN /\ IF msg.paths = <<>>
               THEN UNCHANGED <<pc, pending>>
               ELSE /\ pc' = "handling"
                    /\ pending' = Some([ev |-> serial, kind |-> msg.kind,
                                        paths |-> msg.paths])
            /\ UNCHANGED handled
       ELSE /\ handled' = Append(handled,
                    [ev |-> serial, path |-> <<>>])
            /\ UNCHANGED <<pc, pending>>
    /\ step' = NoStep
    /\ chan' = Tail(chan)
    /\ UNCHANGED <<now, dvars, pvars, WConfig, last_index_time, tx_alive, sent,
                   registered>>

RecvClosed_while_open ==
    /\ pc = "loop"
    /\ chan = <<>>
    /\ pc' = "done"
    /\ step' = NoStep
    /\ UNCHANGED <<now, dvars, pvars, WConfig, last_index_time, chan, tx_alive,
                   pending, sent, registered, handled>>

\* rx.recv() fails: every sender is gone and the channel is empty.
RecvClosed ==
    /\ pc = "loop"
    /\ chan = <<>>
    /\ ~tx_alive
    /\ pc' = "done"
    /\ step' = NoStep
    /\ UNCHANGED <<now, dvars, pvars, WConfig, last_index_time, chan, tx_alive,
                   pending, sent, registered, handled>>

HandlePath_abort_on_error ==
    /\ pc = "handling"
    /\ LET e == pending[1]
           path == Head(e.paths)
           rest == Tail(e.paths) IN
       /\ \E kind \in FsKinds(path), kind_at_read \in FsKinds(path),
             read_ok \in BOOLEAN :
             LET h == handle_event(e.kind, path, kind, now) IN
             /\ h.call \notin {"index", "creation"} =>
                    (kind_at_read = kind /\ read_ok)
             /\ ~is_file(kind_at_read) => read_ok
             /\ handled' = Append(handled,
                    [ev |-> e.ev, path |-> path])
             /\ step' = [ev |-> e.ev, kind |-> e.kind, path |-> path,
                         at |-> kind, call |-> h.call,
                         outcome |-> Outcome(h.call, path, kind_at_read, read_ok),
                         t |-> now, pre_last |-> last_index_time,
                         post_last |-> h.last]
             /\ last_index_time' = h.last
       /\ IF rest = <<>> \/ step'.outcome = "err"
          THEN pc' = "loop" /\ pending' = None
          ELSE pc' = "handling" /\ pending' = Some([e EXCEPT !.paths = rest])
    /\ UNCHANGED <<now, dvars, pvars, WConfig, chan, tx_alive, sent, registered>>

\* One turn of handle_event's loop over the event's paths.  What the path
\* is on disk is whatever the outside world made it: kind when the handler
\* tests it, kind_at_read when index_file reads it.
HandlePath ==
    /\ pc = "handling"
    /\ LET e == pending[1]
           path == Head(e.paths)
           rest == Tail(e.paths) IN
       /\ \E kind \in FsKinds(path), kind_at_read \in FsKinds(path),
             read_ok \in BOOLEAN :
             LET h == handle_event(e.kind, path, kind, now) IN
             /\ h.call \notin {"index", "creation"} =>
                    (kind_at_read = kind /\ read_ok)
             /\ ~is_file(kind_at_read) => read_ok
             /\ handled' = Append(handled,
                    [ev |-> e.ev, path |-> path])
             /\ step' = [ev |-> e.ev, kind |-> e.kind, path |-> path,
                         at |-> kind, call |-> h.call,
                         outcome |-> Outcome(h.call, path, kind_at_read, read_ok),
                         t |-> now, pre_last |-> last_index_time,
                         post_last |-> h.last]
             /\ last_index_time' = h.last
       /\ IF rest = <<>>
          THEN pc' = "loop" /\ pending' = None
          ELSE pc' = "handling" /\ pending' = Some([e EXCEPT !.paths = rest])
    /\ UNCHANGED <<now, dvars, pvars, WConfig, chan, tx_alive, sent, registered>>

NextWatcher ==
    \/ TickWatcher
    \/ \E dir \in WatchableDirs : WatchDirectory(dir)
    \/ \E f \in WatchableFiles : AddFile(f)
    \/ CodeFilesOnly
    \/ StartWatching
    \/ \E k \in EventKinds, ps \in EventPathLists : Notify(k, ps)
    \/ NotifyError
    \/ CloseChannel
    \/ Recv
    \/ RecvClosed
    \/ HandlePath

SpecWatcher == InitWatcher /\ [][NextWatcher]_vars

\* The dispatch loop alone, entered after watch_directory(d) and a setup
\* that succeeded.  The loop thread keeps running: a recv() that can return
\* does return, and handle_event, a for loop over the paths of one event,
\* returns to the loop.
InitLoop ==
    /\ now = 0
    /\ supported_extensions = {}
    /\ gitignore_file = None
    /\ ignore_file = None
    /\ user_ignores = <<>>
    /\ debounce_duration = 1
    /\ index_times = <<>>
    /\ order = <<>>
    /\ last_admit = [p \in DeciderPaths |-> None]
    /\ solo = [p \in DeciderPaths |-> Debouncer_new]
    /\ ret = NoCall
    /\ watched_files = {}
    /\ watched_dirs = {dir_d}
    /\ fi_debounce_duration \in 1..MaxWatchWindow
    /\ last_index_time = None
    /\ code_extensions = DefaultCodeExtensions
    /\ code_files_only = FALSE
    /\ chan = <<>>
    /\ tx_alive = TRUE
    /\ pc = "loop"
    /\ pending = None
    /\ sent = 0
    /\ registered = {dir_d}
    /\ handled = <<>>
    /\ step = NoStep
    /\ ParserIdle

NextLoop ==
    \/ TickWatcher
    \/ \E k \in EventKinds, ps \in EventPathLists : Notify(k, ps)
    \/ NotifyError
    \/ CloseChannel
    \/ Recv
    \/ RecvClosed
    \/ HandlePath

SpecLoopFair ==
    /\ InitLoop
    /\ [][NextLoop]_vars
    /\ WF_vars(Recv)
    /\ WF_vars(RecvClosed)
    /\ []<>(pc # "handling")

\* The dispatch loop after add_file(x/a.rs) and a setup that succeeded, with
\* notifications that name the file by its path or by x/../x/a.rs, another
\* path of the same file.
dir_x == <<"x">>
x_up_x_a_rs == <<"x", "/", ".", ".", "/", "x", "/", "a", ".", "r", "s">>

AliasPathLists == {<<x_a_rs>>, <<x_up_x_a_rs>>}

InitAlias ==
    /\ now = 0
    /\ supported_extensions = {}
    /\ gitignore_file = None
    /\ ignore_file = None
    /\ user_ignores = <<>>
    /\ debounce_duration = 1
    /\ index_times = <<>>
    /\ order = <<>>
    /\ last_admit = [p \in DeciderPaths |-> None]
    /\ solo = [p \in DeciderPaths |-> Debouncer_new]
    /\ ret = NoCall
    /\ watched_files = {x_a_rs}
    /\ watched_dirs = {}
    /\ fi_debounce_duration \in 1..MaxWatchWindow
    /\ last_index_time = None
    /\ code_extensions = DefaultCodeExtensions
    /\ code_files_only = FALSE
    /\ chan = <<>>
    /\ tx_alive = TRUE
    /\ pc = "loop"
    /\ pending = None
    /\ sent = 0
    /\ registered = {dir_x}
    /\ handled = <<>>
    /\ step = NoStep
    /\ ParserIdle

NextAlias ==
    \/ TickWatcher
    \/ \E k \in EventKinds, ps \in AliasPathLists : Notify(k, ps)
    \/ CloseChannel
    \/ Recv
    \/ RecvClosed
    \/ HandlePath

SpecAlias == InitAlias /\ [][NextAlias]_vars

\* ------------------------------------- SpecRegistry: the parser registry
\* The IndexDecider before any call.
DeciderIdle ==
    /\ now = 0
    /\ supported_extensions = {}
    /\ gitignore_file = None
    /\ ignore_file = None
    /\ user_ignores = <<>>
    /\ debounce_duration = 1
    /\ index_times = <<>>
    /\ order = <<>>
    /\ last_admit = [p \in DeciderPaths |-> None]
    /\ solo = [p \in DeciderPaths |-> Debouncer_new]
    /\ ret = NoCall

InitRegistry ==
    /\ DeciderIdle
    /\ WatcherIdle
    /\ ParserIdle

Range(f) == {f[x] : x \in DOMAIN f}

\* A caller invokes LanguageParserRegistry::register_parser(parser).
RegisterParser(parser) ==
    /\ LET r == register_parser(parsers, extension_to_language, parser) IN
       /\ parsers' = r.parsers
       /\ extension_to_language' = r.extension_to_language
    /\ claimed' = claimed \cup Range(parser.file_extensions)
    /\ parse_ret' = NoParse
    /\ UNCHANGED <<now, dvars, wvars, tree, file_events, visited, walked,
                   prior_events>>

\* A caller invokes LanguageParserRegistry::parse_file(path, content).
ParseFile(path) ==
    /\ \E parse_ok \in BOOLEAN :
          LET r == Registry_parse_file(parsers, extension_to_language, path,
                                       parse_ok) IN
          parse_ret' = [op |-> "parse_file", path |-> path,
                        result |-> r.result, invoked |-> r.invoked]
    /\ UNCHANGED <<now, dvars, wvars, parsers, extension_to_language, claimed,
                   tree, file_events, visited, walked, prior_events>>

NextRegistry ==
    \/ \E parser \in CallerParsers : RegisterParser(parser)
    \/ \E path \in RegistryPaths : ParseFile(path)

SpecRegistry == InitRegistry /\ [][NextRegistry]_vars

\* ------------------------------------- SpecParser: the tree traversal
InitParser ==
    /\ DeciderIdle
    /\ WatcherIdle
    /\ parsers = Registry_new.parsers
    /\ extension_to_language = Registry_new.extension_to_language
    /\ claimed = {py, pyw, pyi}
    /\ parse_ret = NoParse
    /\ tree \in Trees \cup SignatureTrees
    /\ file_events = <<>>
    /\ visited = <<>>
    /\ walked = FALSE
    /\ prior_events = <<>>

\* FileEvents::new: no events.
FileEvents_new == [events |-> <<>>, visited |-> <<>>, aborted |-> FALSE]

\* WalkTree with the FileEvents of the previous call handed to walk_tree.
WalkTree_reusing_events ==
    /\ ~walked
    /\ LET r == walk_tree(tree, <<>>, [FileEvents_new EXCEPT !.events = file_events]) IN
       /\ file_events' = r.events
       /\ visited' = r.visited
       /\ parse_ret' = [op |-> "walk_tree", path |-> <<>>,
                        result |-> IF r.aborted THEN "aborted" ELSE "some",
                        invoked |-> Some(PythonParser)]
    /\ walked' = TRUE
    /\ UNCHANGED <<now, dvars, wvars, parsers, extension_to_language, claimed,
                   tree, prior_events>>

\* LanguageParser::parse_file from FileEvents::new on: walk_tree fills the
\* empty FileEvents from the root node, and parse_file returns Ok(file_events)
\* unless the traversal was aborted.
WalkTree ==
    /\ ~walked
    /\ LET r == walk_tree(tree, <<>>, FileEvents_new) IN
       /\ file_events' = r.events
       /\ visited' = r.visited
       /\ parse_ret' = [op |-> "walk_tree", path |-> <<>>,
                        result |-> IF r.aborted THEN "aborted" ELSE "some",
                        invoked |-> Some(PythonParser)]
    /\ walked' = TRUE
    /\ UNCHANGED <<now, dvars, wvars, parsers, extension_to_language, claimed,
                   tree, prior_events>>

\* The files parsed after the first one.
LaterTrees ==
    {empty_module,
     Inner("module", <<def_foo>>),
     Inner("module", <<FunctionNode(Inner("block", <<pass_statement, function_g>>)),
                       function_g>>)}

\* LanguageParser::parse_file is called again, on another file, and the
\* backend parses it into a tree; the caller still holds the events the
\* previous call returned.
ParseNextFile ==
    /\ walked
    /\ tree' \in LaterTrees
    /\ prior_events' = file_events
    /\ walked' = FALSE
    /\ UNCHANGED <<now, dvars, wvars, parsers, extension_to_language, claimed,
                   parse_ret, file_events, visited>>

NextParser == WalkTree \/ ParseNextFile

SpecParser == InitParser /\ [][NextParser]_vars

\* ------------------------------------------------------------ properties
Eligible(p) == ~is_ignored(p) /\ is_supported(p)

\* C1: for an eligible path the first should_index returns true, a call less
\* than the window after the most recent true returns false, and a call the
\* window or more after it returns true.
C1_AdmitOncePerWindow ==
    (ret.op = "should_index" /\ Eligible(ret.path)) =>
        IF ret.prev_admit = None
        THEN ret.result
        ELSE ret.result = (ret.t2 - ret.prev_admit[1] >= debounce_duration)

\* C2: pruning removes a path's timestamp only through the queue entry that
\* carries that timestamp: a path that lost its map entry in a call has no
\* queued entry holding the timestamp the map had for it.
C2_PruneKeepsCurrentTimestamp ==
    ret.op = "should_index" =>
        \A q \in DOMAIN ret.pre_times :
            q \notin DOMAIN index_times =>
                ~\E i \in DOMAIN order :
                    order[i] = [path |-> q, time |-> ret.pre_times[q]]

\* C3: should_index on an ignored or unsupported path leaves the timestamp
\* map and the expiry queue as they were, and such a path never has a record,
\* so debounce_duration_left reports the full window for it.
C3_DeniedPathKeepsDebounceState ==
    /\ (ret.op = "should_index" /\ ~Eligible(ret.path)) =>
           /\ index_times = ret.pre_times
           /\ order = ret.pre_order
           /\ ~ret.result
    /\ \A p \in DeciderPaths :
           ~Eligible(p) =>
               debounce_duration_left(index_times, debounce_duration, p, now)
                   = debounce_duration

C3_Witness ==
    /\ ret.op = "should_index"
    /\ is_ignored(ret.path)
    /\ is_supported(ret.path)
    /\ order # <<>>
    /\ now - Head(order).time > debounce_duration

\* C4: should_index returns not ignored AND supported AND the debouncer's
\* answer on the state the call found.
C4_DecisionIsConjunction ==
    ret.op = "should_index" =>
        ret.result =
            (/\ ~is_ignored(ret.path)
             /\ is_supported(ret.path)
             /\ Debouncer_should_index(ret.pre_times, ret.pre_order,
                    debounce_duration, ret.path, ret.t1, ret.t2).result)

C4_Witness ==
    /\ ret.op = "should_index"
    /\ ret.result
    /\ ret.path \in DOMAIN ret.pre_times

\* C5: time_left changes nothing and reports the full window for a path that
\* was never admitted, the window minus the elapsed time for a path admitted
\* less than the window ago, and zero for a recorded path whose window is over.
C5_TimeLeftReportsRemainingWait ==
    ret.op = "time_left" =>
        LET p == ret.path
            d == debounce_duration IN
        /\ index_times = ret.pre_times
        /\ order = ret.pre_order
        /\ last_admit[p] = None => ret.left = d
        /\ (last_admit[p] # None /\ now - last_admit[p][1] < d) =>
               ret.left = d - (now - last_admit[p][1])
        /\ (p \in DOMAIN index_times /\ now - last_admit[p][1] >= d) =>
               ret.left = 0

\* The final component of path is stem.e with a non-empty stem and no dot in e.
HasExtension(path, e) ==
    LET fn == file_name(path) IN
    /\ fn # None
    /\ \E k \in 2..Len(fn[1]) :
           /\ fn[1][k] = "."
           /\ e = SubSeq(fn[1], k + 1, Len(fn[1]))
           /\ \A i \in 1..Len(e) : e[i] # "."

\* C6: is_supported is exact, case-sensitive membership of the path's
\* extension in the allowlist; a path without an extension is unsupported.
C6_ExtensionMembershipExact ==
    ret.op = "is_supported" =>
        /\ ret.result = (\E e \in supported_extensions : HasExtension(ret.path, e))
        /\ (supported_extensions = {rs, py} /\ ret.path = a_rs) => ret.result
        /\ (supported_extensions = {rs, py} /\ ret.path = a_RS) => ~ret.result
        /\ ret.path \in {no_ext, dot_rs, d_rs_a} => ~ret.result

C6_Witness ==
    /\ ret.op = "is_supported"
    /\ ret.path = a_RS
    /\ supported_extensions = {rs, py}
    /\ ~ret.result

\* The raw rule lines in the order .gitignore, .ignore, caller.
RuleLines == FileLines(gitignore_file) \o FileLines(ignore_file) \o user_ignores

Rules == ParseLines(RuleLines)

\* C7: the verdict of is_ignored is that of the last rule matching the path
\* in the order .gitignore, .ignore, caller lines; a later negated rule
\* re-admits the path.
C7_LastMatchWins ==
    ret.op = "is_ignored" =>
        LET M == {i \in 1..Len(Rules) : RuleMatches(Rules[i], ret.path)} IN
        /\ ret.result =
               (/\ M # {}
                /\ ~Rules[CHOOSE i \in M : \A j \in M : j <= i].negated)
        /\ (Rules = ParseLines(<<star_log, not_keep_log>>) /\ ret.path = a_log)
               => ret.result
        /\ (Rules = ParseLines(<<star_log, not_keep_log>>) /\ ret.path = keep_log)
               => ~ret.result

C7_Witness ==
    /\ ret.op = "is_ignored"
    /\ ret.path = keep_log
    /\ gitignore_file = Some(<<star_log>>)
    /\ ignore_file = None
    /\ user_ignores = <<not_keep_log>>
    /\ ~ret.result

\* The admission FileIndexer::should_index owes a path at clock t when the
\* debounce clock holds last.
Admits(path, t, last) ==
    /\ is_watched(path)
    /\ is_code_file(path)
    /\ (last = None \/ t - last[1] >= fi_debounce_duration)

\* C8: a path of a Modify(Name) notification that exists is a creation
\* candidate, handled as a creation exactly when it is admitted; one that
\* does not exist is handled as a removal, exactly when it is a watched code
\* file; never both.
C8_RenameResolvedByExistence ==
    step.kind = "ModifyName" =>
        /\ exists(step.at) =>
               /\ step.call \in {"creation", "none"}
               /\ (step.call = "creation") = Admits(step.path, step.t, step.pre_last)
        /\ ~exists(step.at) =>
               /\ step.call \in {"deletion", "none"}
               /\ (step.call = "deletion") =
                      (would_be_indexed(step.path) /\ is_code_file(step.path))

C8_Witness ==
    /\ step.kind = "ModifyName"
    /\ ~exists(step.at)
    /\ step.call = "deletion"
    /\ Admits(step.path, step.t, step.pre_last)

\* C9: a Remove notification, or a name change whose path is gone, for a
\* watched code file always reaches deletion handling, whatever the debounce
\* clock holds, and leaves the debounce clock as it was.
C9_DeletionsNotDebounced ==
    (step.kind = "Remove" \/ (step.kind = "ModifyName" /\ ~exists(step.at))) =>
        /\ (step.call = "deletion") =
               (would_be_indexed(step.path) /\ is_code_file(step.path))
        /\ step.call = "deletion" => step.outcome = "ok"
        /\ step.post_last = step.pre_last
        /\ last_index_time = step.pre_last

C9_Witness ==
    /\ step.kind = "Remove"
    /\ step.call = "deletion"
    /\ step.pre_last # None
    /\ step.t - step.pre_last[1] < fi_debounce_duration

\* C10: creation handling runs only for a path that is a regular file when
\* it is handled, for a Create and for a Modify(Name) notification alike, and
\* a Create notification for a directory leaves the debounce clock alone.
C10_CreatedActsOnFilesOnly ==
    /\ (step.kind \in {"Create", "ModifyName"} /\ step.call = "creation") =>
           is_file(step.at)
    /\ (step.kind = "Create" /\ ~is_file(step.at)) =>
           (step.call = "none" /\ step.post_last = step.pre_last)

\* The union the watch set is resolved to: the watched directories and the
\* parent directory of every watched file that has one.
WatchSetUnion ==
    watched_dirs \cup
        UNION {IF parent(f) = None THEN {} ELSE {parent(f)[1]} : f \in watched_files}

\* C11: once start_watching is in its loop the directories registered with
\* the backend are the watched directories and the parents of the watched
\* files; with that union empty start_watching fails before the loop and
\* no notification is sent, received or handled.
C11_WatchSetIsDirsAndParents ==
    /\ pc \in {"loop", "handling", "done"} => registered = WatchSetUnion
    /\ WatchSetUnion = {} =>
           /\ pc \in {"new", "failed"}
           /\ registered = {}
           /\ sent = 0 /\ chan = <<>> /\ handled = <<>> /\ step = NoStep

C11_Witness ==
    /\ pc = "handling"
    /\ watched_files # {}
    /\ watched_dirs # {}
    /\ registered \notin {watched_dirs, {}}

\* C12: the loop exits only when recv() fails, that is with every sender
\* gone and the channel drained; once the channel is closed the loop does
\* exit; and after the exit nothing more is received or handled.
C12_LoopEndsOnChannelClosure ==
    /\ [](pc = "done" => (~tx_alive /\ chan = <<>> /\ pending = None))
    /\ [][pc = "done" => UNCHANGED <<pc, chan, handled, last_index_time>>]_vars
    /\ ((Running /\ ~tx_alive) ~> (pc = "done"))

C12_Witness ==
    /\ pc = "done"
    /\ Len(handled) >= 2
    /\ sent = MaxEvents

\* The entries of handled that record a backend error taken from the channel.
IsErrorEntry(h) == h.path = <<>>

\* C13: a backend error taken from the channel ends the dispatch loop: no
\* path of a notification is handled after it and the loop is not receiving
\* or handling any more.
C13_BackendErrorIsFatal ==
    \A i \in DOMAIN handled :
        IsErrorEntry(handled[i]) =>
            /\ i = Len(handled)
            /\ ~Running

\* What the loop still has to handle: the paths left of the event in the
\* handler and everything queued in the channel.
RECURSIVE ChanOwed(_)
ChanOwed(c) ==
    IF c = <<>> THEN 0
    ELSE (IF Head(c).tag = "event" THEN Len(Head(c).paths) ELSE 1)
         + ChanOwed(Tail(c))

Owed == ChanOwed(chan) + (IF pending = None THEN 0 ELSE Len(pending[1].paths))

\* The change of the last step was admitted and then lost to a failure:
\* the file was gone when index_file looked, or it could not be read.
ChangeFailed == step.call \in {"index", "creation"} /\ step.outcome \in {"err", "skipped"}

\* C14: a change whose read fails is skipped and nothing else is lost: the
\* loop keeps running with the rest of the event's paths still to handle,
\* no step drops a queued path, and everything queued is handled in the end.
C14_FailedChangeIsSkipped ==
    /\ [](ChangeFailed =>
             /\ Running
             /\ handled[Len(handled)] = [ev |-> step.ev, path |-> step.path]
             /\ pc = "handling" => pending[1].ev = step.ev)
    /\ [][sent' = sent => Len(handled') + Owed' = Len(handled) + Owed]_vars
    /\ (ChangeFailed ~> (chan = <<>> /\ pending = None))

C14_Witness ==
    /\ step.outcome = "err"
    /\ pc = "handling"
    /\ chan # <<>>

\* The paths handled so far for notification k, in the order handled.
HandledPaths(k) ==
    LET Of(h) == h.ev = k
        sel == SelectSeq(handled, Of) IN
    [i \in 1..Len(sel) |-> sel[i].path]

\* The notifications taken from the channel so far are 1..Received.
Received == sent - Len(chan)

\* C15: notifications are handled one at a time in delivery order: the
\* handled entries never step back to an earlier notification, a
\* notification taken from the channel earlier is handled completely, in
\* the order of its path list, before the next is taken, one not yet taken
\* has nothing handled, and a created or modified path is left alone only
\* when the condition guarding its handler call is false.
C15_OneAtATimeInOrder ==
    /\ \A i, j \in DOMAIN handled : i < j => handled[i].ev <= handled[j].ev
    /\ (pc = "handling") = (pending # None)
    /\ pending # None => (pending[1].ev = Received /\ pending[1].paths # <<>>)
    /\ \A k \in 1..sent :
           IF k > Received THEN HandledPaths(k) = <<>>
           ELSE IF pending # None /\ pending[1].ev = k
                THEN HandledPaths(k) \o pending[1].paths \in EventPathLists
                ELSE HandledPaths(k) \in EventPathLists \cup {<< <<>> >>}
    /\ step.kind = "ModifyData" =>
           (step.call = "none") = ~Admits(step.path, step.t, step.pre_last)
    /\ step.kind = "Create" =>
           (step.call = "none") =
               ~(is_file(step.at) /\ Admits(step.path, step.t, step.pre_last))
    /\ (step.kind = "ModifyName" /\ exists(step.at)) =>
           (step.call = "none") = ~Admits(step.path, step.t, step.pre_last)

C15_Witness ==
    /\ pc = "handling"
    /\ pending[1].ev = 1
    /\ HandledPaths(1) # <<>>
    /\ chan # <<>>
    /\ Head(chan).tag = "event"

\* The last step was a created or modified change for a watched code path
\* that the handler could have acted on, and should_index denied it: only
\* the debounce test can have said no.
DeniedByDebounce ==
    /\ \/ step.kind = "ModifyData"
       \/ step.kind = "Create" /\ is_file(step.at)
       \/ step.kind = "ModifyName" /\ exists(step.at)
    /\ is_watched(step.path)
    /\ is_code_file(step.path)
    /\ step.call = "none"

\* C16: the debounce gate of the dispatch loop is per path: a change denied
\* by debounce is for a path the loop has handled before, since only an
\* earlier admission of that same path can be less than the window old; a
\* path's first change is never dropped because another path was admitted.
C16_DebounceGateIsPerPath ==
    DeniedByDebounce =>
        \E i \in 1..(Len(handled) - 1) : handled[i].path = step.path

\* Some parser registered so far claims the extension of path.
ExtensionClaimed(path) == \E e \in claimed : HasExtension(path, e)

\* C17: parse_file on a path whose extension no registered parser claims,
\* or that has no extension, returns Ok(None) and calls no parser; it
\* returns Some only for a path whose extension is claimed, from the parser
\* it called.
C17_NoParserMeansNone ==
    parse_ret.op = "parse_file" =>
        /\ ~ExtensionClaimed(parse_ret.path) =>
               (parse_ret.result = "none" /\ parse_ret.invoked = None)
        /\ parse_ret.path \in {no_ext, dot_py} =>
               (parse_ret.result = "none" /\ parse_ret.invoked = None)
        /\ parse_ret.result = "some" =>
               (ExtensionClaimed(parse_ret.path) /\ parse_ret.invoked # None)

C17_Witness ==
    /\ parse_ret.op = "parse_file"
    /\ parse_ret.path = a_PY
    /\ "rust" \in DOMAIN parsers
    /\ parse_ret.result = "none"

\* A file name with the extension e.
WithExtension(e) == <<"a", ".">> \o e

Resolves(path) == get_parser_for_file(parsers, extension_to_language, path) # None

\* C18: at construction py, pyw and pyi resolve to the Python parser; ever
\* after, every extension claimed by a parser registered so far resolves to
\* a parser, and a path that resolves keeps resolving.
C18_RegistrationIsAdditive ==
    /\ \A e \in {py, pyw, pyi} :
           get_parser_for_file(parsers, extension_to_language, WithExtension(e))
               = Some(PythonParser)
    /\ [](\A e \in claimed : Resolves(WithExtension(e)))
    /\ [][\A path \in RegistryPaths : Resolves(path) => Resolves(path)']_vars

C18_Witness ==
    /\ DOMAIN parsers = {"python", "rust", "stub"}
    /\ parsers["python"] = PythonLiteParser
    /\ extension_to_language[pyi] = "stub"
    /\ extension_to_language[rs] = "rust"

\* The node of tree t at position pos.
RECURSIVE NodeAt(_, _)
NodeAt(t, pos) ==
    IF pos = <<>> THEN t ELSE NodeAt(t.children[Head(pos)], Tail(pos))

\* Position q lies strictly below position p.
Below(p, q) == Len(q) > Len(p) /\ SubSeq(q, 1, Len(p)) = p

IsFunction(pos) == NodeAt(tree, pos).kind = "function_definition"

\* C19: a function-definition node the traversal visits is visited once and
\* has exactly one FunctionDefinition event, carrying its name; below it the
\* traversal visits its body and nothing outside the body subtree, so never
\* its name, parameters or return type; a function nested in the body is
\* itself such a node.
C19_FunctionEmitsOnceThenBodyOnly ==
    walked =>
        \A i \in DOMAIN visited :
            LET pos == visited[i]
                n == NodeAt(tree, pos) IN
            IsFunction(pos) =>
                /\ \A j \in DOMAIN visited : visited[j] = pos => j = i
                /\ Cardinality({j \in DOMAIN file_events :
                                    file_events[j].node = pos}) = 1
                /\ \A j \in DOMAIN file_events :
                       file_events[j].node = pos =>
                           /\ file_events[j].type = "FunctionDefinition"
                           /\ file_events[j].name = n.children[n.field.name].text
                /\ n.field.body # 0 =>
                       \E j \in DOMAIN visited : visited[j] = Append(pos, n.field.body)
                /\ \A j \in DOMAIN visited :
                       Below(pos, visited[j]) =>
                           /\ n.field.body # 0
                           /\ visited[j][Len(pos) + 1] = n.field.body

C19_Witness ==
    /\ walked
    /\ \E i, j \in DOMAIN visited :
           /\ IsFunction(visited[i])
           /\ IsFunction(visited[j])
           /\ Below(visited[i], visited[j])
           /\ NodeAt(tree, visited[j]).field.return_type # 0

\* The events of the nodes at or below pos, in the order emitted.
EventsUnder(pos) ==
    LET At(e) == e.node = pos \/ Below(pos, e.node) IN
    SelectSeq(file_events, At)

\* The events of traversing the children of node from child i on, each
\* child on its own, one after the other.
RECURSIVE ChildrenEvents(_, _, _)
ChildrenEvents(node, pos, i) ==
    IF i > Len(node.children) THEN <<>>
    ELSE walk_tree(node.children[i], Append(pos, i), FileEvents_new).events
         \o ChildrenEvents(node, pos, i + 1)

\* C20: a visited node of a kind without a rule has no event of its own,
\* has every child visited, and the events at or below it are those of
\* traversing its children one after the other, in order.
C20_NoRuleRecursesIntoAllChildren ==
    walked =>
        \A i \in DOMAIN visited :
            LET pos == visited[i]
                n == NodeAt(tree, pos) IN
            ~IsFunction(pos) =>
                /\ \A j \in DOMAIN file_events : file_events[j].node # pos
                /\ \A c \in DOMAIN n.children :
                       \E j \in DOMAIN visited :
                           j > i /\ visited[j] = Append(pos, c)
                /\ EventsUnder(pos) = ChildrenEvents(n, pos, 1)

C20_Witness ==
    /\ walked
    /\ \E i \in DOMAIN visited :
           /\ NodeAt(tree, visited[i]).kind = "class_definition"
           /\ Len(EventsUnder(visited[i])) >= 2


\* The parameters a function declares: the children of its parameters node
\* that are not punctuation.
RECURSIVE SelectDeclared(_)
SelectDeclared(children) ==
    IF children = <<>> THEN <<>>
    ELSE (IF Head(children).kind \in {"(", ",", ")"} THEN <<>> ELSE <<Head(children)>>)
             \o SelectDeclared(Tail(children))

Declared(fn) == SelectDeclared(fn.children[fn.field.parameters].children)

\* A parameter that is a name, with or without a type and a default value.
IsNamedParameter(p) ==
    p.kind \in {"identifier", "typed_parameter", "default_parameter",
                "typed_default_parameter"}

DeclaredName(p) == IF p.kind = "identifier" THEN p.text ELSE p.children[1].text

DeclaredType(p) ==
    IF \E i \in DOMAIN p.children : p.children[i].kind = "type"
    THEN Some((CHOOSE c \in Range(p.children) : c.kind = "type").text)
    ELSE None

DeclaredValue(p) ==
    IF \E i \in DOMAIN p.children : p.children[i].kind = "="
    THEN Some(p.children[(CHOOSE i \in DOMAIN p.children :
                              p.children[i].kind = "=") + 1].text)
    ELSE None

\* name, "name: type", "name = value" or "name: type = value".
Rendered(p) ==
    DeclaredName(p)
        \o (IF DeclaredType(p) # None
            THEN <<":", " ">> \o DeclaredType(p)[1] ELSE <<>>)
        \o (IF DeclaredValue(p) # None
            THEN <<" ", "=", " ">> \o DeclaredValue(p)[1] ELSE <<>>)

\* C21: the parameter list of a FunctionDefinition event holds, in
\* declaration order, the rendering of every declared parameter: the name, or
\* "name: type", "name = value", "name: type = value"; for
\* def foo(a, b: int, c=1, d: int = 2) the list is
\* ["a", "b: int", "c = 1", "d: int = 2"] and return_type is None.
C21_ParametersRenderInOrder ==
    walked =>
        /\ \A j \in DOMAIN file_events :
               LET declared == Declared(NodeAt(tree, file_events[j].node)) IN
               (\A i \in DOMAIN declared : IsNamedParameter(declared[i])) =>
                   file_events[j].parameters =
                       [i \in DOMAIN declared |-> Rendered(declared[i])]
        /\ tree = Inner("module", <<def_foo>>) =>
               /\ Len(file_events) = 1
               /\ file_events[1].parameters =
                      << <<"a">>, <<"b", ":", " ", "i", "n", "t">>,
                         <<"c", " ", "=", " ", "1">>,
                         <<"d", ":", " ", "i", "n", "t", " ", "=", " ", "2">> >>
               /\ file_events[1].return_type = None

\* C22: every FunctionDefinition event carries start_line = start row + 1 and
\* end_line = end row + 1 of its function node, with 1 <= start_line <=
\* end_line, and is_public is true iff the function's name does not start
\* with an underscore.
C22_LinesOneIndexedAndPublicFlag ==
    walked =>
        \A j \in DOMAIN file_events :
            LET e == file_events[j]
                n == NodeAt(tree, e.node) IN
            /\ e.start_line = n.start_row + 1
            /\ e.end_line = n.end_row + 1
            /\ 1 <= e.start_line /\ e.start_line <= e.end_line
            /\ e.is_public <=> ~(Len(e.name) > 0 /\ e.name[1] = "_")

C22_Witness ==
    /\ walked
    /\ \E j \in DOMAIN file_events :
           /\ file_events[j].start_line < file_events[j].end_line
           /\ ~file_events[j].is_public
           /\ file_events[j].start_line > 1

\* The positions of the nodes of the tree under node, itself at pos.
RECURSIVE Positions(_, _)
Positions(node, pos) ==
    {pos} \cup UNION {Positions(node.children[i], Append(pos, i)) :
                         i \in DOMAIN node.children}

\* No function above pos holds it outside its body.
OutsideSignatures(pos) ==
    \A k \in 0..(Len(pos) - 1) :
        LET above == NodeAt(tree, SubSeq(pos, 1, k)) IN
        above.kind = "function_definition" => pos[k + 1] = above.field.body

\* The kinds the parser names as significant and has no handler for.
Unimplemented == {"class_definition"}

Precedes(p, q) ==
    \/ Below(p, q)
    \/ \E k \in 1..Len(p) :
           /\ k <= Len(q)
           /\ SubSeq(p, 1, k - 1) = SubSeq(q, 1, k - 1)
           /\ p[k] < q[k]

\* C29: the events a parse returns are in depth-first pre-order of the tree
\* (an enclosing function before the functions nested in its body, sibling
\* functions in source order), and they are the events of this parse alone:
\* one per function of this tree outside function signatures, whatever an
\* earlier parse returned.
C29_EventsInPreOrderOfThisParse ==
    walked =>
        /\ \A i, j \in DOMAIN file_events :
               i < j => Precedes(file_events[i].node, file_events[j].node)
        /\ {file_events[j].node : j \in DOMAIN file_events} =
               {pos \in Positions(tree, <<>>) :
                    IsFunction(pos) /\ OutsideSignatures(pos)}

C29_Witness ==
    /\ walked
    /\ prior_events # <<>>
    /\ \E i, j, k \in DOMAIN file_events :
           /\ i < j /\ j < k
           /\ Below(file_events[i].node, file_events[j].node)
           /\ ~Below(file_events[i].node, file_events[k].node)

\* The components of the canonical form of a path: every ".." has removed
\* the component before it ("." is no component).
RECURSIVE Resolve(_, _)
Resolve(components, acc) ==
    IF components = <<>> THEN acc
    ELSE IF Head(components) = <<".", ".">>
         THEN Resolve(Tail(components),
                      IF acc = <<>> THEN acc ELSE SubSeq(acc, 1, Len(acc) - 1))
         ELSE Resolve(Tail(components), Append(acc, Head(components)))

CanonicalComponents(path) == Resolve(Components(path), <<>>)

SameFile(p, q) == CanonicalComponents(p) = CanonicalComponents(q)

\* The shared debounce clock does not deny the step.
OutsideWindow ==
    step.pre_last = None
        \/ duration_since(step.t, step.pre_last[1]) >= fi_debounce_duration

\* C24: a notification is tested against the watched files by its canonical
\* path: a data change of a path that is an existing file and names the same
\* file as a watched file, by whatever path, is recognized as watched and,
\* outside the debounce window, indexed.
C24_AliasOfWatchedFileIsWatched ==
    (/\ step.kind = "ModifyData"
     /\ step.at = "file"
     /\ \E f \in watched_files : SameFile(step.path, f)
     /\ OutsideWindow)
        => step.call = "index"

\* The membership rule: the file set alone while it is non-empty, the
\* watched directories only when it is empty.
Candidate(path) ==
    IF watched_files # {}
    THEN \E f \in watched_files : Components(f) = Components(path)
    ELSE \E dir \in watched_dirs : starts_with(path, dir)

\* C28: every arm of the handler uses the membership rule.  A data change, a
\* creation of a file and a rename to an existing path call the handler iff
\* the path is a candidate, passes the code-file filter and is outside the
\* debounce window; a removal and a rename away call the deletion handler iff
\* the path is a candidate and passes the code-file filter; with both sets
\* empty nothing is ever called.
C28_MembershipRule ==
    LET indexing ==
            \/ step.kind = "ModifyData"
            \/ step.kind = "Create" /\ step.at = "file"
            \/ step.kind = "ModifyName" /\ step.at # "absent"
        removal ==
            \/ step.kind = "Remove"
            \/ step.kind = "ModifyName" /\ step.at = "absent" IN
    /\ indexing =>
           (step.call # "none" <=>
                Candidate(step.path) /\ is_code_file(step.path) /\ OutsideWindow)
    /\ removal =>
           (step.call = "deletion" <=>
                Candidate(step.path) /\ is_code_file(step.path))
    /\ (watched_files = {} /\ watched_dirs = {}) => step.call = "none"

\* A path under a watched directory is removed while the file set is
\* non-empty and does not hold it, and a path is handled with both sets empty.
C28_Witness ==
    /\ watched_files # {}
    /\ watched_dirs # {}
    /\ \E dir \in watched_dirs : starts_with(step.path, dir)
    /\ step.kind \in {"Remove", "ModifyData"}
    /\ step.at = "file" \/ step.kind = "Remove"
    /\ OutsideWindow
    /\ step.call = "none"

\* The timestamps the expiry queue holds for path p.
QueuedTimes(p) == {order[i].time : i \in {j \in DOMAIN order : order[j].path = p}}

\* C26: a path has an entry in index_times iff the expiry queue holds an
\* entry for it, and the map's timestamp is that of the newest queued entry
\* for the path.
C26_MapMatchesQueue ==
    \A p \in DeciderPaths :
        /\ p \in DOMAIN index_times <=> QueuedTimes(p) # {}
        /\ p \in DOMAIN index_times =>
               /\ index_times[p] \in QueuedTimes(p)
               /\ \A t \in QueuedTimes(p) : t <= index_times[p]

\* C27: the expiry queue is ordered by non-decreasing timestamp from front to
\* back, and once a call has run cleanup at time t1 no queued entry and no
\* map entry is older than t1 minus the window.
C27_QueueOrderedCleanupComplete ==
    /\ \A i, j \in DOMAIN order : i < j => order[i].time <= order[j].time
    /\ (ret.op = "should_index" /\ Eligible(ret.path)) =>
           /\ \A i \in DOMAIN order :
                  ret.t1 - order[i].time <= debounce_duration
           /\ \A p \in DOMAIN index_times :
                  ret.t1 - index_times[p] <= debounce_duration

\* A cleanup that popped two expired entries and stopped at an unexpired one.
C27_Witness ==
    /\ ret.op = "should_index"
    /\ Eligible(ret.path)
    /\ Len(ret.pre_order) >= 3
    /\ ret.t1 - ret.pre_order[2].time > debounce_duration
    /\ ret.t1 - ret.pre_order[3].time <= debounce_duration
    /\ Len(order) >= 1
    /\ Head(order) = ret.pre_order[3]

\* C25: should_index calls for other paths, and the cleanup they run, do not
\* change the result of a call for path p: the result is the one a debouncer
\* returns that was given the calls for p alone, at the same times.
C25_AdmissionsDoNotInterfere ==
    ret.op = "should_index" => ret.result = ret.alone

\* A call for p after another path was admitted, and after a call for another
\* path whose cleanup removed p's entry from the map.
C25_Witness ==
    /\ ret.op = "should_index"
    /\ Eligible(ret.path)
    /\ ret.prev_admit # None
    /\ ret.path \notin DOMAIN ret.pre_times
    /\ ret.path \in DOMAIN solo[ret.path].index_times
    /\ \E q \in DeciderPaths \ {ret.path} :
           /\ last_admit[q] # None
           /\ last_admit[q][1] >= ret.prev_admit[1]

====
